---- MODULE Spec2Model ----
(***************************************************************************)
(* A model of the solver framework of src/algorithms: the parameter        *)
(* validation, the run loops of the three entry points, the proximal       *)
(* backtracking searches, the accelerated-gradient step, the gradient      *)
(* projection step and the primal-dual interior-point step.                *)
(*                                                                         *)
(* Numbers.  Points are one-dimensional.  Every real the code computes in  *)
(* floating point is an exact rational here, a pair <<n, d>> with d > 0 in *)
(* lowest terms, so that no rounding of the model decides a comparison.    *)
(* None, the empty tuple, is the Python value None where a number or a     *)
(* mapping may be missing.                                                 *)
(***************************************************************************)
EXTENDS Integers, Sequences, FiniteSets, TLC

None == << >>

(***************************************************************************)
(* Exact rational arithmetic.                                              *)
(***************************************************************************)
Abs(a) == IF a < 0 THEN -a ELSE a

RECURSIVE Gcd(_, _)
Gcd(a, b) == IF b = 0 THEN a ELSE Gcd(b, a % b)

Q(n, d) ==
  LET s == IF d < 0 THEN -1 ELSE 1
      g == Gcd(Abs(n), Abs(d))
  IN  <<(s * n) \div g, (s * d) \div g>>

Z(n) == <<n, 1>>
RAdd(p, q) ==
  LET g == Gcd(p[2], q[2])
  IN  Q(p[1] * (q[2] \div g) + q[1] * (p[2] \div g), (p[2] \div g) * q[2])
RNeg(p) == <<-p[1], p[2]>>
RSub(p, q) == RAdd(p, RNeg(q))
RMul(p, q) ==
  LET g == Gcd(Abs(p[1]), q[2])
      h == Gcd(Abs(q[1]), p[2])
  IN  Q((p[1] \div g) * (q[1] \div h), (p[2] \div h) * (q[2] \div g))
RDiv(p, q) == Q(p[1] * q[2], p[2] * q[1])
RLe(p, q) ==
  LET g == Gcd(p[2], q[2])
  IN  p[1] * (q[2] \div g) <= q[1] * (p[2] \div g)
RLt(p, q) ==
  LET g == Gcd(p[2], q[2])
  IN  p[1] * (q[2] \div g) < q[1] * (p[2] \div g)
RAbs(p) == <<Abs(p[1]), p[2]>>
RZero == Z(0)
ROne == Z(1)
RHalf == Q(1, 2)

Range(s) == {s[j] : j \in DOMAIN s}

(***************************************************************************)
(* Natural numbers of any size, as sequences of base-10000 digits with the *)
(* lowest digit first, for the products that compare two norms.            *)
(***************************************************************************)
RECURSIVE ToBig(_)
ToBig(n) ==
  IF n < 10000 THEN <<n>> ELSE <<n % 10000>> \o ToBig(n \div 10000)

RECURSIVE BigAddCarry(_, _, _)
BigAddCarry(a, b, c) ==
  IF a = << >> /\ b = << >> THEN (IF c = 0 THEN << >> ELSE <<c>>)
  ELSE LET x == IF a = << >> THEN 0 ELSE Head(a)
           y == IF b = << >> THEN 0 ELSE Head(b)
           ta == IF a = << >> THEN << >> ELSE Tail(a)
           tb == IF b = << >> THEN << >> ELSE Tail(b)
       IN  <<(x + y + c) % 10000>> \o BigAddCarry(ta, tb, (x + y + c) \div 10000)

BigAdd(a, b) == BigAddCarry(a, b, 0)

RECURSIVE BigMulDigit(_, _, _)
BigMulDigit(a, d, c) ==
  IF a = << >> THEN (IF c = 0 THEN << >> ELSE <<c>>)
  ELSE <<(Head(a) * d + c) % 10000>>
         \o BigMulDigit(Tail(a), d, (Head(a) * d + c) \div 10000)

RECURSIVE BigMul(_, _)
BigMul(a, b) ==
  IF b = << >> THEN << >>
  ELSE BigAdd(BigMulDigit(a, Head(b), 0), <<0>> \o BigMul(a, Tail(b)))

RECURSIVE BigTrim(_)
BigTrim(a) ==
  IF a # << >> /\ a[Len(a)] = 0 THEN BigTrim(SubSeq(a, 1, Len(a) - 1)) ELSE a

RECURSIVE BigLeSameLen(_, _)
BigLeSameLen(a, b) ==
  IF a = << >> THEN TRUE
  ELSE IF a[Len(a)] # b[Len(b)] THEN a[Len(a)] < b[Len(b)]
  ELSE BigLeSameLen(SubSeq(a, 1, Len(a) - 1), SubSeq(b, 1, Len(b) - 1))

BigLe(a, b) ==
  LET x == BigTrim(a)
      y == BigTrim(b)
  IN  IF Len(x) # Len(y) THEN Len(x) < Len(y) ELSE BigLeSameLen(x, y)

BigSq(n) == BigMul(ToBig(Abs(n)), ToBig(Abs(n)))

(***************************************************************************)
(* The solver classes and the key list each constructor declares.          *)
(***************************************************************************)
UnconstrainedClasses ==
  {"GradientDescent", "SubspaceGD", "AcceleratedGD", "NewtonMethod",
   "SubspaceNewton", "LimitedMemoryNewton", "BacktrackingProximalGD",
   "BacktrackingAcceleratedProximalGD"}

ConstrainedClasses ==
  {"GradientProjectionMethod", "DynamicBarrierGD",
   "PrimalDualInteriorPointMethod"}

Classes == UnconstrainedClasses \cup ConstrainedClasses

params_key(c) ==
  CASE c = "GradientDescent" -> <<"lr", "backward">>
    [] c = "SubspaceGD" -> <<"lr", "reduced_dim", "dim", "mode", "backward">>
    [] c = "AcceleratedGD" -> <<"lr", "backward">>
    [] c = "NewtonMethod" -> <<"alpha", "beta", "backward">>
    [] c = "SubspaceNewton" -> <<"dim", "reduced_dim", "mode", "backward">>
    [] c = "LimitedMemoryNewton" ->
         <<"matrix_size", "threshold_eigenvalue", "alpha", "beta", "backward">>
    [] c = "BacktrackingProximalGD" -> <<"eps", "beta", "backward">>
    [] c = "BacktrackingAcceleratedProximalGD" ->
         <<"restart", "beta", "eps", "backward">>
    [] c = "GradientProjectionMethod" -> <<"eps", "delta", "alpha", "beta">>
    [] c = "DynamicBarrierGD" ->
         <<"lr", "alpha", "beta", "barrier_func_type", "sub_problem_eps",
           "inner_iteration">>
    [] c = "PrimalDualInteriorPointMethod" -> <<"mu", "eps", "eps_feas">>

Declared(c) == Range(params_key(c))

(***************************************************************************)
(* The keys each class reads from params: "backward" in the run of the     *)
(* unconstrained classes, the others in __iter_per__ and __step_size__.    *)
(***************************************************************************)
KeysRead(c) ==
  CASE c = "GradientDescent" -> {"backward", "lr"}
    [] c = "SubspaceGD" -> {"backward", "reduced_dim", "dim", "mode"}
    [] c = "AcceleratedGD" -> {"backward", "lr"}
    [] c = "NewtonMethod" -> {"backward", "alpha", "beta"}
    [] c = "SubspaceNewton" ->
         {"backward", "reduced_dim", "dim", "mode", "alpha", "beta"}
    [] c = "LimitedMemoryNewton" ->
         {"backward", "matrix_size", "threshold_eigenvalue", "alpha", "beta"}
    [] c = "BacktrackingProximalGD" -> {"backward", "beta", "eps"}
    [] c = "BacktrackingAcceleratedProximalGD" ->
         {"backward", "beta", "eps", "restart"}
    [] c = "GradientProjectionMethod" -> {"eps", "delta", "alpha", "beta"}
    [] c = "DynamicBarrierGD" -> {"alpha", "beta", "lr", "barrier_func_type"}
    [] c = "PrimalDualInteriorPointMethod" ->
         {"mu", "eps", "eps_feas", "beta", "alpha"}

(* solve_subproblem_by_APGD: the class of the nested solver and the keys   *)
(* of the mapping built for it                                             *)
NestedSolver(c) ==
  IF c = "DynamicBarrierGD" THEN "BacktrackingAcceleratedProximalGD"
  ELSE "none"

NestedParamsKeys(c) ==
  IF c = "DynamicBarrierGD" THEN {"restart", "beta", "eps"} ELSE {}

(***************************************************************************)
(* __check_params__: the two assertions, in the order the code makes them. *)
(* A parameter mapping is a function from its keys to values; a dict holds *)
(* every key once, so len(params) is the size of its domain.               *)
(***************************************************************************)
CheckParamsNoCount(c, p) ==
  \A j \in DOMAIN params_key(c) : params_key(c)[j] \in DOMAIN p

CheckParams(c, p) ==
  /\ Len(params_key(c)) = Cardinality(DOMAIN p)
  /\ \A j \in DOMAIN params_key(c) : params_key(c)[j] \in DOMAIN p

(***************************************************************************)
(* Parameter values.  The keys a modelled step reads get their value from  *)
(* the mapping; the value table gives every key a value of its type.       *)
(***************************************************************************)
OtherKeys == {"unknown", "lr", "eps"}

ParamValue(key) ==
  CASE key \in {"backward", "restart"} -> TRUE
    [] key = "mode" -> "random"
    [] key = "barrier_func_type" -> "values"
    [] key = "beta" -> RHalf
    [] OTHER -> ROne

MappingOver(keys) == [key \in keys |-> ParamValue(key)]

KeySets(c) == SUBSET (Declared(c) \cup OtherKeys)

(***************************************************************************)
(* Oracles.  The objective and the proximal operator are the caller's; the *)
(* model lets the caller pick among the ones named here.  Grad and Hess    *)
(* are what automatic differentiation returns for the objective.  "kink"   *)
(* is torch.where(x >= 0, x, -x): its derivative at 0 is that of the first *)
(* branch.                                                                 *)
(***************************************************************************)
F(obj, x) ==
  CASE obj = "quad" -> RMul(x, x)
    [] obj = "lin" -> x
    [] obj = "kink" -> RAbs(x)

Grad(obj, x) ==
  CASE obj = "quad" -> RMul(Z(2), x)
    [] obj = "lin" -> ROne
    [] obj = "kink" -> IF RLe(RZero, x) THEN ROne ELSE Z(-1)

Hess(obj, x) ==
  CASE obj = "quad" -> Z(2)
    [] obj = "lin" -> RZero
    [] obj = "kink" -> RZero

Prox(op, y, scale) ==
  CASE op = "identity" -> y
    [] op = "nonnegative_projection" -> IF RLt(y, RZero) THEN RZero ELSE y

(***************************************************************************)
(* __first_order_oracle__: the gradient, with the loss when asked for it;  *)
(* None when backward_mode is off (the method has no other branch).        *)
(***************************************************************************)
FirstOrderOracle(obj, backward, x, output_loss) ==
  IF backward
  THEN IF output_loss THEN <<Grad(obj, x), F(obj, x)>> ELSE Grad(obj, x)
  ELSE None

(***************************************************************************)
(* BacktrackingProximalGD.backtracking_with_prox.  A search state is the   *)
(* locals t, max_iter and prox_x.                                          *)
(***************************************************************************)
MaxIterDefault == 10000

BtStart(op, x, grad, max_iter) ==
  [t |-> ROne, max_iter |-> max_iter,
   prox_x |-> Prox(op, RSub(x, RMul(ROne, grad)), ROne)]

(* the test of the loop with the quadratic term of the bound four times   *)
(* as large                                                                *)
BtCondLinear(obj, x, grad, loss, s) ==
  LET diff == RSub(x, s.prox_x)
  IN  RLt(RAdd(RSub(RMul(s.t, loss), RMul(s.t, RMul(grad, diff))),
               RMul(Z(2), RMul(diff, diff))),
          RMul(s.t, F(obj, s.prox_x)))

BtCond(obj, x, grad, loss, s) ==
  LET diff == RSub(x, s.prox_x)
  IN  RLt(RAdd(RSub(RMul(s.t, loss), RMul(s.t, RMul(grad, diff))),
               RMul(RHalf, RMul(diff, diff))),
          RMul(s.t, F(obj, s.prox_x)))

BtShrink(op, x, grad, beta, s) ==
  LET t2 == RMul(s.t, beta)
  IN  [t |-> t2, max_iter |-> s.max_iter - 1,
       prox_x |-> Prox(op, RSub(x, RMul(t2, grad)), t2)]

BtBudgetSpent(s) == s.max_iter < 0

RECURSIVE BtLoop(_, _, _, _, _, _, _)
BtLoop(obj, op, x, grad, beta, loss, s) ==
  IF ~BtCond(obj, x, grad, loss, s) THEN s
  ELSE LET s2 == BtShrink(op, x, grad, beta, s)
       IN  IF BtBudgetSpent(s2) THEN s2
           ELSE BtLoop(obj, op, x, grad, beta, loss, s2)

BacktrackingWithProx(obj, op, x, grad, beta, max_iter, loss) ==
  BtLoop(obj, op, x, grad, beta,
         IF loss = None THEN F(obj, x) ELSE loss,
         BtStart(op, x, grad, max_iter))

(***************************************************************************)
(* BacktrackingAcceleratedProximalGD.backtracking_with_prox.  The scale is *)
(* the field tk; max_iter is a parameter the body never reads.             *)
(***************************************************************************)
AccStart(op, v, grad_v, tk0) ==
  [tk |-> tk0, prox_x |-> Prox(op, RSub(v, RMul(tk0, grad_v)), tk0)]

AccCond(obj, v, grad_v, loss_v, s) ==
  LET diff == RSub(s.prox_x, v)
  IN  RLt(RAdd(RAdd(RMul(s.tk, loss_v), RMul(s.tk, RMul(grad_v, diff))),
               RMul(RHalf, RMul(diff, diff))),
          RMul(s.tk, F(obj, s.prox_x)))

AccShrink(op, v, grad_v, beta, s) ==
  LET t2 == RMul(s.tk, beta)
  IN  [tk |-> t2, prox_x |-> Prox(op, RSub(v, RMul(t2, grad_v)), t2)]

RECURSIVE AccLoop(_, _, _, _, _, _, _)
AccLoop(obj, op, v, grad_v, beta, loss_v, s) ==
  IF ~AccCond(obj, v, grad_v, loss_v, s) THEN s
  ELSE AccLoop(obj, op, v, grad_v, beta, loss_v,
               AccShrink(op, v, grad_v, beta, s))

AccBacktrackingWithProx(obj, op, v, grad_v, beta, loss_v, tk0) ==
  AccLoop(obj, op, v, grad_v, beta,
          IF loss_v = None THEN F(obj, v) ELSE loss_v,
          AccStart(op, v, grad_v, tk0))

check_norm(d, eps) == RLe(RAbs(d), eps)

(***************************************************************************)
(* Python's % (the result takes the sign of the divisor) and the test of   *)
(* the run loops, (i+1)%log_interval == 0 & log_interval != -1.  & binds   *)
(* tighter than == and !=, so Python reads the chained comparison          *)
(* (i+1)%log_interval == (0 & log_interval) != -1.                         *)
(***************************************************************************)
PyMod(a, b) == IF b > 0 THEN a % b ELSE -((-a) % (-b))

LogCondIntended(n, li) == li # -1 /\ PyMod(n + 1, li) = 0

LogCond(n, li) ==
  LET masked == 0   \* 0 & log_interval
  IN  PyMod(n + 1, li) = masked /\ masked # -1

(***************************************************************************)
(* update_save_values(iter, ...): entry iter of a series (Python counts    *)
(* from 0, a TLA+ sequence from 1).                                        *)
(***************************************************************************)
UpdateSaveValuesShifted(series, iter, v) == [series EXCEPT ![iter] = v]

UpdateSaveValues(series, iter, v) == [series EXCEPT ![iter + 1] = v]

Zeros(n) == [j \in 1..n |-> RZero]

(***************************************************************************)
(* (1 + 4*lambda_k**2)**0.5.  A square root is not rational in general:    *)
(* the model returns the largest multiple of 1/SqrtDen below it, which is  *)
(* the root itself whenever the root is an integer.                        *)
(***************************************************************************)
SqrtDen == 2

RECURSIVE SqrtFrom(_, _)
SqrtFrom(q, n) ==
  IF (n + 1) * (n + 1) * q[2] <= q[1] * SqrtDen * SqrtDen
  THEN SqrtFrom(q, n + 1) ELSE n

Sqrt(q) == Q(SqrtFrom(q, 0), SqrtDen)

(***************************************************************************)
(* One AcceleratedGD.__iter_per__ on (xk, yk, lambda_k), and the update of *)
(* GradientDescent.__iter_per__.                                           *)
(***************************************************************************)
GradientDescentUpdate(x, lr, grad) == RAdd(x, RMul(lr, RNeg(grad)))

(* the step with gamma_k computed from lambda_{k+1}, not lambda_k *)
AcceleratedGDUpdateNextLambda(x, y, lam, lr, grad) ==
  LET lambda_k1 ==
        RDiv(RAdd(ROne, Sqrt(RAdd(ROne, RMul(Z(4), RMul(lam, lam))))), Z(2))
      gamma_k == RDiv(RSub(ROne, lambda_k1), lambda_k1)
      yk1 == RSub(x, RMul(lr, grad))
  IN  [xk |-> RAdd(RMul(RSub(ROne, gamma_k), yk1), RMul(gamma_k, y)),
       yk |-> yk1, lambda_k |-> lambda_k1]

AcceleratedGDUpdate(x, y, lam, lr, grad) ==
  LET lambda_k1 ==
        RDiv(RAdd(ROne, Sqrt(RAdd(ROne, RMul(Z(4), RMul(lam, lam))))), Z(2))
      gamma_k == RDiv(RSub(ROne, lam), lambda_k1)
      yk1 == RSub(x, RMul(lr, grad))
  IN  [xk |-> RAdd(RMul(RSub(ROne, gamma_k), yk1), RMul(gamma_k, y)),
       yk |-> yk1, lambda_k |-> lambda_k1]

(***************************************************************************)
(* utils.calculate.line_search is not among the source files: a            *)
(* backtracking search that shrinks the scale by beta until the Armijo     *)
(* decrease holds, as the design describes it.                             *)
(***************************************************************************)
RECURSIVE line_search(_, _, _, _, _, _, _)
line_search(obj, x, grad, dk, alpha, beta, scale) ==
  IF RLe(F(obj, RAdd(x, RMul(scale, dk))),
         RAdd(F(obj, x), RMul(alpha, RMul(scale, RMul(grad, dk)))))
  THEN scale
  ELSE line_search(obj, x, grad, dk, alpha, beta, RMul(scale, beta))

(***************************************************************************)
(* The run.  cls is the class of the solver object; params, log_interval,  *)
(* iteration, x0, f and prox are the arguments of run; the rest are the    *)
(* object's fields, the loop variable i, the locals T and prox_x, and      *)
(* three records of what the run did: written (the indices stored into     *)
(* save_values, in order), flushed (the values of i+1 at which             *)
(* save_results was called) and iter_calls (the calls of __iter_per__).    *)
(***************************************************************************)
VARIABLES cls, params, log_interval, iteration, x0, f, prox,
          pc, err, i, T, finish, backward_mode, xk, yk, lambda_k,
          tk, k, xk1, vk, prox_x, func_values, time,
          written, flushed, iter_calls

(* The call of __check_params__ that SpecParams models. *)
VARIABLES cp_cls, cp_params, cp_result

(* A call of backtracking_with_prox (SpecProx): the arguments, the locals  *)
(* t (the field tk in the accelerated class), max_iter and prox_x, the     *)
(* position in the body, and the number of times the loop body ran.        *)
VARIABLES bt_cls, bt_f, bt_prox, bt_x, bt_grad, bt_beta, bt_loss, bt_budget,
          bt_pc, bt_t, bt_max_iter, bt_prox_x, bt_shrinks

(* One AcceleratedGD step and one GradientDescent step from the same       *)
(* point (SpecAGD).                                                        *)
VARIABLES ag_f, ag_lr, ag_xk, ag_yk, ag_lambda_k, ag_pc, ag_new, ag_gd

(* One call of GradientProjectionMethod.__iter_per__ (SpecGPM): the fields *)
(* f, con, xk, lk, finish, the params argument and how the call ended.     *)
VARIABLES gp_f, gp_con, gp_params, gp_xk, gp_lk, gp_finish, gp_err, gp_pc

(* One call of PrimalDualInteriorPointMethod.__iter_per__ (SpecPDIP), as   *)
(* the loop of run makes it while finish is False; pd_s is the local s,    *)
(* the scale __step_size__ returned.                                       *)
VARIABLES pd_f, pd_con, pd_params, pd_xk, pd_lk, pd_finish, pd_err, pd_pc,
          pd_s

(* One call of GradientProjectionMethod.__direction__ (SpecDirection): the *)
(* arguments grad and Gk, the field lk and the value returned.             *)
VARIABLES dr_grad, dr_Gk, dr_lk, dr_d, dr_pc

(* Calls of LimitedMemoryNewton.generate_matrix (SpecLMN): the argument    *)
(* matrix_size, the field Pk as the sequence of its rows, and the          *)
(* (xk, gk) pairs of the calls made so far.                                *)
VARIABLES lm_matrix_size, lm_Pk, lm_pairs

cpVars == <<cp_cls, cp_params, cp_result>>
drVars == <<dr_grad, dr_Gk, dr_lk, dr_d, dr_pc>>
lmVars == <<lm_matrix_size, lm_Pk, lm_pairs>>
btArgs == <<bt_cls, bt_f, bt_prox, bt_x, bt_grad, bt_beta, bt_loss, bt_budget>>
btVars == <<btArgs, bt_pc, bt_t, bt_max_iter, bt_prox_x, bt_shrinks>>
agArgs == <<ag_f, ag_lr, ag_xk, ag_yk, ag_lambda_k>>
agVars == <<agArgs, ag_pc, ag_new, ag_gd>>

runArgs == <<cls, params, log_interval, iteration, x0, f, prox>>
runVars == <<runArgs, pc, err, i, T, finish, backward_mode, xk, yk, lambda_k,
             tk, k, xk1, vk, prox_x, func_values, time,
             written, flushed, iter_calls>>

gpVars == <<gp_f, gp_con, gp_params, gp_xk, gp_lk, gp_finish, gp_err, gp_pc>>
pdArgs == <<pd_f, pd_con, pd_params>>
pdVars == <<pdArgs, pd_xk, pd_lk, pd_finish, pd_err, pd_pc, pd_s>>

vars == <<runVars, cpVars, btVars, agVars, gpVars, pdVars, drVars, lmVars>>
notRun == <<cpVars, btVars, agVars, gpVars, pdVars, drVars, lmVars>>
notCp == <<runVars, btVars, agVars, gpVars, pdVars, drVars, lmVars>>
notBt == <<runVars, cpVars, agVars, gpVars, pdVars, drVars, lmVars>>
notAg == <<runVars, cpVars, btVars, gpVars, pdVars, drVars, lmVars>>
notGp == <<runVars, cpVars, btVars, agVars, pdVars, drVars, lmVars>>
notPd == <<runVars, cpVars, btVars, agVars, gpVars, drVars, lmVars>>
notDr == <<runVars, cpVars, btVars, agVars, gpVars, pdVars, lmVars>>
notLm == <<runVars, cpVars, btVars, agVars, gpVars, pdVars, drVars>>

MaxIteration == 2
MaxX0 == 2

ProxClasses == {"BacktrackingProximalGD", "BacktrackingAcceleratedProximalGD"}
BaseRunClasses == UnconstrainedClasses \ ProxClasses
AlwaysRaising == {"SubspaceGD", "SubspaceNewton", "LimitedMemoryNewton"}

RunValue(key, b, e, r, m) ==
  CASE key = "backward" -> b
    [] key = "eps" -> e
    [] key = "restart" -> r
    [] key = "mode" -> m
    [] key = "lr" -> Q(1, 4)
    [] key = "alpha" -> Q(1, 4)
    [] OTHER -> ParamValue(key)

RunKeySets(c) ==
  {Declared(c), Declared(c) \cup {"unknown"}}
    \cup {Declared(c) \ {key} : key \in Declared(c)}
    \cup {(Declared(c) \ {key}) \cup {"unknown"} : key \in Declared(c)}

(* The fields as the constructors leave them. *)
FreshFields ==
  /\ finish = FALSE /\ backward_mode = TRUE
  /\ xk = None /\ yk = None /\ lambda_k = RZero
  /\ tk = ROne /\ k = 0 /\ xk1 = None /\ vk = None
  /\ func_values = << >> /\ time = << >>

RunInit ==
  /\ cls \in Classes
  /\ \E keys \in RunKeySets(cls), b \in BOOLEAN,
        e \in (IF cls \in ProxClasses THEN {RZero, Z(2)} ELSE {ROne}),
        r \in (IF cls = "BacktrackingAcceleratedProximalGD"
               THEN BOOLEAN ELSE {TRUE}),
        m \in (IF cls \in {"SubspaceGD", "SubspaceNewton"}
               THEN {"random", "identity", "other"} ELSE {"random"}) :
       params = [key \in keys |-> RunValue(key, b, e, r, m)]
  /\ log_interval \in {-1, 0, 1, 2}
  /\ iteration \in 0..MaxIteration
  /\ x0 \in {Z(n) : n \in -1..MaxX0}
  /\ f \in {"quad", "lin"}
  /\ prox \in (IF cls \in ProxClasses
               THEN {"identity", "nonnegative_projection"} ELSE {"none"})
  /\ pc = "start" /\ err = "none" /\ i = 0 /\ T = 0
  /\ FreshFields
  /\ prox_x = None
  /\ written = << >> /\ flushed = << >> /\ iter_calls = 0

(***************************************************************************)
(* __run_init__ of optimization_solver, with what AcceleratedGD and the    *)
(* proximal classes do before calling it.                                  *)
(***************************************************************************)
BaseRunInit ==
  /\ xk' = x0
  /\ func_values' = UpdateSaveValues(Zeros(iteration + 1), 0, F(f, x0))
  /\ time' = Zeros(iteration + 1)
  /\ finish' = FALSE
  /\ yk' = IF cls = "AcceleratedGD" THEN x0 ELSE yk
  /\ k' = IF cls = "BacktrackingAcceleratedProximalGD" THEN 0 ELSE k
  /\ xk1' = IF cls = "BacktrackingAcceleratedProximalGD" THEN x0 ELSE xk1

Raised(e) == pc' = "raised" /\ err' = e

NoRunRecord == UNCHANGED <<written, flushed, iter_calls, T, i, prox_x>>

(* optimization_solver.run, lines 67-71 *)
RunStartBase ==
  /\ UNCHANGED notRun
  /\ pc = "start" /\ cls \in BaseRunClasses
  /\ BaseRunInit
  /\ IF CheckParams(cls, params)
     THEN /\ backward_mode' = params["backward"]
          /\ pc' = "loop" /\ err' = "none"
     ELSE /\ Raised("AssertionError")
          /\ UNCHANGED backward_mode
  /\ NoRunRecord
  /\ UNCHANGED <<runArgs, lambda_k, tk, vk>>

(* BacktrackingProximalGD.run, lines 337-341 *)
RunStartProx ==
  /\ UNCHANGED notRun
  /\ pc = "start" /\ cls \in ProxClasses
  /\ BaseRunInit
  /\ IF "backward" \notin DOMAIN params
     THEN Raised("KeyError") /\ UNCHANGED backward_mode
     ELSE /\ backward_mode' = params["backward"]
          /\ IF CheckParams(cls, params)
             THEN pc' = "loop" /\ err' = "none"
             ELSE Raised("AssertionError")
  /\ NoRunRecord
  /\ UNCHANGED <<runArgs, lambda_k, tk, vk>>

(* constrained_optimization_solver.run, line 18: __run_init__ evaluates    *)
(* self.func, an attribute no class defines, after it made the series.     *)
RunStartConstrained ==
  /\ UNCHANGED notRun
  /\ pc = "start" /\ cls \in ConstrainedClasses
  /\ xk' = x0
  /\ func_values' = Zeros(iteration + 1)
  /\ time' = Zeros(iteration + 1)
  /\ finish' = FALSE
  /\ Raised("AttributeError")
  /\ NoRunRecord
  /\ UNCHANGED <<runArgs, backward_mode, yk, lambda_k, tk, k, xk1, vk>>

(***************************************************************************)
(* __iter_per__ of the classes whose run is optimization_solver.run: the   *)
(* error it raises ("none": it returned) and the fields it leaves.         *)
(***************************************************************************)
Returned(e, x, y, lam) == [err |-> e, xk |-> x, yk |-> y, lambda_k |-> lam]
Raises(e) == Returned(e, xk, yk, lambda_k)

GradientDescent_iter_per ==
  LET grad == FirstOrderOracle(f, backward_mode, xk, FALSE)
  IN  IF grad = None THEN Raises("TypeError")
      ELSE Returned("none", GradientDescentUpdate(xk, params["lr"], grad),
                    yk, lambda_k)

AcceleratedGD_iter_per ==
  LET grad == FirstOrderOracle(f, backward_mode, xk, FALSE)
  IN  IF grad = None THEN Raises("TypeError")
      ELSE LET n == AcceleratedGDUpdate(xk, yk, lambda_k, params["lr"], grad)
           IN  Returned("none", n.xk, n.yk, n.lambda_k)

NewtonMethod_iter_per ==
  LET grad == FirstOrderOracle(f, backward_mode, xk, FALSE)
      H == Hess(f, xk)
  IN  IF grad = None THEN Raises("TypeError")
      ELSE IF H = RZero THEN Raises("LinAlgError")
      ELSE LET dk == RNeg(RDiv(grad, H))
               lr == line_search(f, xk, grad, dk, params["alpha"],
                                 params["beta"], ROne)
           IN  Returned("none", RAdd(xk, RMul(lr, dk)), yk, lambda_k)

(* SubspaceGD: generate_matrix returns None for "identity" and raises for  *)
(* an unknown mode; otherwise the step size is the base class's None.      *)
SubspaceGD_iter_per ==
  CASE params["mode"] = "random" -> Raises("TypeError")
    [] params["mode"] = "identity" -> Raises("AttributeError")
    [] OTHER -> Raises("ValueError")

(* SubspaceNewton: as SubspaceGD up to the oracle; then __direction__ is   *)
(* called without its parameter Mk.                                        *)
SubspaceNewton_iter_per ==
  CASE params["mode"] = "random" -> Raises("TypeError")
    [] params["mode"] = "identity" -> Raises("AttributeError")
    [] OTHER -> Raises("ValueError")

(* LimitedMemoryNewton: Pk is None (generate_matrix is never called), and  *)
(* subspace_second_order_oracle is called without threshold_eigenvalue.    *)
LimitedMemoryNewton_iter_per ==
  IF backward_mode THEN Raises("AttributeError") ELSE Raises("TypeError")

iter_per(c) ==
  CASE c = "GradientDescent" -> GradientDescent_iter_per
    [] c = "AcceleratedGD" -> AcceleratedGD_iter_per
    [] c = "NewtonMethod" -> NewtonMethod_iter_per
    [] c = "SubspaceGD" -> SubspaceGD_iter_per
    [] c = "SubspaceNewton" -> SubspaceNewton_iter_per
    [] c = "LimitedMemoryNewton" -> LimitedMemoryNewton_iter_per

(* if not self.finish *)
LoopRunsIterAlways == TRUE

LoopRunsIter == ~finish

(***************************************************************************)
(* The end of a loop pass: the elapsed time and the objective stored at    *)
(* i+1, then the progress report and the flush.  log_interval = 0 makes    *)
(* the % raise.                                                            *)
(***************************************************************************)
RecordPass(x) ==
  /\ \E dt \in 0..1 : T' = T + dt
  /\ time' = UpdateSaveValues(time, i + 1, Z(T'))
  /\ func_values' = UpdateSaveValues(func_values, i + 1, F(f, x))
  /\ written' = Append(written, i + 1)
  /\ IF log_interval = 0
     THEN Raised("ZeroDivisionError") /\ UNCHANGED <<flushed, i>>
     ELSE /\ pc' = "loop" /\ err' = "none"
          /\ i' = i + 1
          /\ flushed' = IF LogCond(i, log_interval)
                        THEN Append(flushed, i + 1) ELSE flushed

(* optimization_solver.run, lines 72-86, one pass of the loop *)
RunPassBase ==
  /\ UNCHANGED notRun
  /\ pc = "loop" /\ cls \in BaseRunClasses /\ i < iteration
  /\ LoopRunsIter
  /\ iter_calls' = iter_calls + 1
  /\ LET r == iter_per(cls)
     IN  /\ xk' = r.xk /\ yk' = r.yk /\ lambda_k' = r.lambda_k
         /\ IF r.err = "none"
            THEN RecordPass(r.xk)
            ELSE /\ Raised(r.err)
                 /\ UNCHANGED <<T, time, func_values, written, flushed, i>>
  /\ UNCHANGED <<runArgs, finish, backward_mode, tk, k, xk1, vk, prox_x>>

(* the else branch of the loop: break, then return *)
RunBreak ==
  /\ UNCHANGED notRun
  /\ pc = "loop" /\ i < iteration
  /\ ~LoopRunsIter
  /\ pc' = "done"
  /\ UNCHANGED <<runArgs, err, i, T, finish, backward_mode, xk, yk, lambda_k,
                 tk, k, xk1, vk, prox_x, func_values, time,
                 written, flushed, iter_calls>>

(* the loop is exhausted: return *)
RunReturn ==
  /\ UNCHANGED notRun
  /\ pc = "loop" /\ i >= iteration
  /\ pc' = "done"
  /\ UNCHANGED <<runArgs, err, i, T, finish, backward_mode, xk, yk, lambda_k,
                 tk, k, xk1, vk, prox_x, func_values, time,
                 written, flushed, iter_calls>>

(***************************************************************************)
(* The proximal classes' __iter_per__, in two positions: first the search  *)
(* and the convergence test (which sets finish), then the assignment of    *)
(* the candidate to xk, after which the run records the pass.              *)
(***************************************************************************)
(* BacktrackingProximalGD.__iter_per__, lines 373-379 *)
ProxSearchAndTest ==
  /\ UNCHANGED notRun
  /\ pc = "loop" /\ cls = "BacktrackingProximalGD" /\ i < iteration
  /\ LoopRunsIter
  /\ iter_calls' = iter_calls + 1
  /\ LET gl == FirstOrderOracle(f, backward_mode, xk, TRUE)
     IN  IF gl = None
         THEN Raised("TypeError") /\ UNCHANGED <<finish, prox_x>>
         ELSE LET s == BacktrackingWithProx(f, prox, xk, gl[1], params["beta"],
                                            MaxIterDefault, gl[2])
              IN  /\ finish' = (finish \/ check_norm(RSub(xk, s.prox_x),
                                                    RMul(s.t, params["eps"])))
                  /\ prox_x' = s.prox_x
                  /\ pc' = "assign" /\ err' = "none"
  /\ UNCHANGED <<runArgs, i, T, backward_mode, xk, yk, lambda_k, tk, k, xk1,
                 vk, func_values, time, written, flushed>>

(* BacktrackingProximalGD.__iter_per__, lines 380-382, and run, 348-354 *)
ProxAssign ==
  /\ UNCHANGED notRun
  /\ pc = "assign" /\ cls = "BacktrackingProximalGD"
  /\ xk' = prox_x
  /\ RecordPass(prox_x)
  /\ UNCHANGED <<runArgs, finish, backward_mode, yk, lambda_k, tk, k, xk1, vk,
                 prox_x, iter_calls>>

(* BacktrackingAcceleratedProximalGD.__iter_per__, lines 404-413.  The     *)
(* call passes loss_v in the place of max_iter, so the search evaluates    *)
(* the loss at v itself.                                                   *)
AccSearchAndTest ==
  /\ UNCHANGED notRun
  /\ pc = "loop" /\ cls = "BacktrackingAcceleratedProximalGD" /\ i < iteration
  /\ LoopRunsIter
  /\ iter_calls' = iter_calls + 1
  /\ k' = k + 1
  /\ vk' = RAdd(xk, RMul(Q(k' - 2, k' + 1), RSub(xk, xk1)))
  /\ LET gl == FirstOrderOracle(f, backward_mode, vk', TRUE)
     IN  IF gl = None
         THEN Raised("TypeError") /\ UNCHANGED <<finish, prox_x, tk>>
         ELSE LET s == AccBacktrackingWithProx(f, prox, vk', gl[1],
                                               params["beta"], None, tk)
              IN  /\ tk' = s.tk
                  /\ finish' = (finish \/ check_norm(RSub(s.prox_x, vk'),
                                                    RMul(s.tk, params["eps"])))
                  /\ prox_x' = s.prox_x
                  /\ pc' = "assign" /\ err' = "none"
  /\ UNCHANGED <<runArgs, i, T, backward_mode, xk, yk, lambda_k, xk1,
                 func_values, time, written, flushed>>

(* BacktrackingAcceleratedProximalGD.__iter_per__, lines 414-419 *)
AccAssign ==
  /\ UNCHANGED notRun
  /\ pc = "assign" /\ cls = "BacktrackingAcceleratedProximalGD"
  /\ xk1' = xk
  /\ xk' = prox_x
  /\ k' = IF params["restart"] /\ RLt(F(f, xk), F(f, prox_x)) THEN 0 ELSE k
  /\ RecordPass(prox_x)
  /\ UNCHANGED <<runArgs, finish, backward_mode, yk, lambda_k, tk, vk,
                 prox_x, iter_calls>>

RunNext ==
  \/ RunStartBase \/ RunStartProx \/ RunStartConstrained
  \/ RunPassBase \/ RunBreak \/ RunReturn
  \/ ProxSearchAndTest \/ ProxAssign \/ AccSearchAndTest \/ AccAssign

RunIdle ==
  /\ cls = "none" /\ params = None /\ log_interval = -1 /\ iteration = 0
  /\ x0 = None /\ f = "none" /\ prox = "none"
  /\ pc = "off" /\ err = "none" /\ i = 0 /\ T = 0
  /\ FreshFields
  /\ prox_x = None
  /\ written = << >> /\ flushed = << >> /\ iter_calls = 0

CpIdle == cp_cls = "none" /\ cp_params = None /\ cp_result = "off"

CpInit ==
  /\ cp_cls \in Classes
  /\ cp_params \in {MappingOver(keys) : keys \in KeySets(cp_cls)}
  /\ cp_result = "pending"

CheckParamsCall ==
  /\ UNCHANGED notCp
  /\ cp_result = "pending"
  /\ cp_result' = IF CheckParams(cp_cls, cp_params)
                  THEN "accepted" ELSE "AssertionError"
  /\ UNCHANGED <<cp_cls, cp_params>>

BtIdle ==
  /\ bt_cls = "none" /\ bt_f = "none" /\ bt_prox = "none" /\ bt_x = None
  /\ bt_grad = None /\ bt_beta = None /\ bt_loss = None /\ bt_budget = 0
  /\ bt_pc = "off" /\ bt_t = None /\ bt_max_iter = 0 /\ bt_prox_x = None
  /\ bt_shrinks = 0

AgIdle ==
  /\ ag_f = "none" /\ ag_lr = None /\ ag_xk = None /\ ag_yk = None
  /\ ag_lambda_k = None /\ ag_pc = "off" /\ ag_new = None /\ ag_gd = None

(***************************************************************************)
(* SpecProx: one call of backtracking_with_prox, a step of the model per   *)
(* evaluation of the loop condition.  The caller passes the gradient of    *)
(* the objective at x and either no loss or the loss at x; max_iter is a   *)
(* parameter, so the caller's budget is drawn from 0..MaxBudget.  The      *)
(* accelerated class has no bound on its loop: the model follows it for    *)
(* MaxShrinks passes.                                                      *)
(***************************************************************************)
MaxPoint == 2
MaxBudget == 2
MaxShrinks == 4

BtInit ==
  /\ bt_cls \in ProxClasses
  /\ bt_f \in {"quad", "lin", "kink"}
  /\ bt_prox \in {"identity", "nonnegative_projection"}
  /\ bt_x \in {Z(n) : n \in -MaxPoint..MaxPoint}
  /\ bt_grad = Grad(bt_f, bt_x)
  /\ bt_beta \in {RZero, RHalf, ROne}
  /\ bt_loss \in {None, F(bt_f, bt_x)}
  /\ bt_budget \in 0..MaxBudget
  /\ bt_pc = "call"
  /\ bt_t \in (IF bt_cls = "BacktrackingProximalGD"
               THEN {None} ELSE {ROne, RHalf})
  /\ bt_max_iter = bt_budget
  /\ bt_prox_x = None
  /\ bt_shrinks = 0

BtState == [t |-> bt_t, max_iter |-> bt_max_iter, prox_x |-> bt_prox_x]
AccState == [tk |-> bt_t, prox_x |-> bt_prox_x]

(* BacktrackingProximalGD.backtracking_with_prox, lines 359-362 *)
BtEnter ==
  /\ UNCHANGED notBt
  /\ bt_pc = "call" /\ bt_cls = "BacktrackingProximalGD"
  /\ LET s == BtStart(bt_prox, bt_x, bt_grad, bt_max_iter)
     IN  bt_t' = s.t /\ bt_prox_x' = s.prox_x
  /\ bt_loss' = IF bt_loss = None THEN F(bt_f, bt_x) ELSE bt_loss
  /\ bt_pc' = "loop"
  /\ UNCHANGED <<bt_cls, bt_f, bt_prox, bt_x, bt_grad, bt_beta, bt_budget,
                 bt_max_iter, bt_shrinks>>

(* lines 363-369: the condition holds, the body runs *)
BtBody ==
  /\ UNCHANGED notBt
  /\ bt_pc = "loop" /\ bt_cls = "BacktrackingProximalGD"
  /\ BtCond(bt_f, bt_x, bt_grad, bt_loss, BtState)
  /\ LET s == BtShrink(bt_prox, bt_x, bt_grad, bt_beta, BtState)
     IN  /\ bt_t' = s.t /\ bt_max_iter' = s.max_iter /\ bt_prox_x' = s.prox_x
         /\ bt_pc' = IF BtBudgetSpent(s) THEN "returned" ELSE "loop"
  /\ bt_shrinks' = bt_shrinks + 1
  /\ UNCHANGED <<btArgs>>

(* lines 363, 370: the condition fails, the pair is returned *)
BtReturn ==
  /\ UNCHANGED notBt
  /\ bt_pc = "loop" /\ bt_cls = "BacktrackingProximalGD"
  /\ ~BtCond(bt_f, bt_x, bt_grad, bt_loss, BtState)
  /\ bt_pc' = "returned"
  /\ UNCHANGED <<btArgs, bt_t, bt_max_iter, bt_prox_x, bt_shrinks>>

(* BacktrackingAcceleratedProximalGD.backtracking_with_prox, 423-426 *)
AccEnter ==
  /\ UNCHANGED notBt
  /\ bt_pc = "call" /\ bt_cls = "BacktrackingAcceleratedProximalGD"
  /\ bt_prox_x' = AccStart(bt_prox, bt_x, bt_grad, bt_t).prox_x
  /\ bt_loss' = IF bt_loss = None THEN F(bt_f, bt_x) ELSE bt_loss
  /\ bt_pc' = "loop"
  /\ UNCHANGED <<bt_cls, bt_f, bt_prox, bt_x, bt_grad, bt_beta, bt_budget,
                 bt_t, bt_max_iter, bt_shrinks>>

(* lines 427-429 *)
AccBody ==
  /\ UNCHANGED notBt
  /\ bt_pc = "loop" /\ bt_cls = "BacktrackingAcceleratedProximalGD"
  /\ bt_shrinks < MaxShrinks
  /\ AccCond(bt_f, bt_x, bt_grad, bt_loss, AccState)
  /\ LET s == AccShrink(bt_prox, bt_x, bt_grad, bt_beta, AccState)
     IN  bt_t' = s.tk /\ bt_prox_x' = s.prox_x
  /\ bt_shrinks' = bt_shrinks + 1
  /\ UNCHANGED <<btArgs, bt_pc, bt_max_iter>>

(* lines 427, 430 *)
AccReturn ==
  /\ UNCHANGED notBt
  /\ bt_pc = "loop" /\ bt_cls = "BacktrackingAcceleratedProximalGD"
  /\ ~AccCond(bt_f, bt_x, bt_grad, bt_loss, AccState)
  /\ bt_pc' = "returned"
  /\ UNCHANGED <<btArgs, bt_t, bt_max_iter, bt_prox_x, bt_shrinks>>

BtNext ==
  \/ BtEnter \/ BtBody \/ BtReturn \/ AccEnter \/ AccBody \/ AccReturn

(***************************************************************************)
(* SpecAGD: AcceleratedGD.__iter_per__ and GradientDescent.__iter_per__    *)
(* applied to the same point with the same lr, backward mode on.           *)
(***************************************************************************)
AgInit ==
  /\ ag_f \in {"quad", "lin"}
  /\ ag_lr \in {Q(1, 4), ROne}
  /\ ag_xk \in {Z(n) : n \in -MaxPoint..MaxPoint}
  /\ ag_yk \in {Z(n) : n \in -MaxPoint..MaxPoint}
  /\ ag_lambda_k \in {RZero, ROne, Q(3, 2)}
  /\ ag_pc = "call"
  /\ ag_new = None /\ ag_gd = None

AgStep ==
  /\ UNCHANGED notAg
  /\ ag_pc = "call"
  /\ ag_new' = AcceleratedGDUpdate(ag_xk, ag_yk, ag_lambda_k, ag_lr,
                                   FirstOrderOracle(ag_f, TRUE, ag_xk, FALSE))
  /\ ag_gd' = GradientDescentUpdate(ag_xk, ag_lr,
                                    FirstOrderOracle(ag_f, TRUE, ag_xk, FALSE))
  /\ ag_pc' = "returned"
  /\ UNCHANGED agArgs

(***************************************************************************)
(* Constraints.  con is the caller's object; the solvers call con(x),      *)
(* con.grad(x), con.second_order_oracle(x, l) and                          *)
(* con.get_number_of_constraints().  The model's callers pass one affine   *)
(* constraint a*x - b <= 0.                                                *)
(***************************************************************************)
Constraints == {[a |-> 1, b |-> 0], [a |-> -1, b |-> 1]}

evaluate_constraints_values(con, x) == RSub(RMul(Z(con.a), x), Z(con.b))
evaluate_constraints_grads(con, x) == Z(con.a)
evaluate_constraints_hessian_linear_sum(con, x, l) == RZero
get_number_of_constraints(con) == 1

ConValue(key, e, d) ==
  CASE key = "eps" -> e
    [] key \in {"delta", "eps_feas"} -> d
    [] key = "mu" -> Z(2)
    [] key = "alpha" -> Q(1, 4)
    [] key = "beta" -> RHalf
    [] OTHER -> RZero

(***************************************************************************)
(* GradientProjectionMethod.                                               *)
(***************************************************************************)
(* get_activate_grads: the gradients of the constraints with value > -eps *)
get_activate_grads(con, x, eps) ==
  IF RLt(RNeg(eps), evaluate_constraints_values(con, x))
  THEN <<evaluate_constraints_grads(con, x)>>
  ELSE << >>

(* lines 99-100: lk = -(Gk Gk^T)^-1 Gk grad, for at most one row in Gk *)
GpMultiplier(grad, Gk) ==
  IF Len(Gk) = 0 THEN << >>
  ELSE <<RNeg(RDiv(RMul(Gk[1], grad), RMul(Gk[1], Gk[1])))>>

(* line 101: -grad - Gk^T lk *)
GpProjected(grad, Gk, lk) ==
  IF Len(Gk) = 0 THEN RNeg(grad)
  ELSE RSub(RNeg(grad), RMul(Gk[1], lk[1]))

(* __direction__: the branch that solves is taken for an empty Gk *)
GpDirection(grad, Gk, lk) ==
  IF Len(Gk) = 0
  THEN [lk |-> GpMultiplier(grad, Gk),
        d |-> GpProjected(grad, Gk, GpMultiplier(grad, Gk))]
  ELSE [lk |-> lk, d |-> RNeg(grad)]

GpKeys == {"eps", "delta", "alpha", "beta"}

GpInit ==
  /\ gp_f \in {"quad", "lin"}
  /\ gp_con \in Constraints
  /\ gp_params \in {[key \in keys |-> ConValue(key, e, d)] :
                      keys \in {GpKeys, GpKeys \ {"delta"}},
                      e \in {RZero, ROne}, d \in {RHalf, Z(3)}}
  /\ gp_xk \in {Z(n) : n \in -MaxPoint..MaxPoint}
  /\ gp_lk = None /\ gp_finish = FALSE /\ gp_err = "none" /\ gp_pc = "call"

(* __iter_per__: the four parameters are read, the active gradients are    *)
(* collected, and line 75 calls __first_order_oracle__ without its         *)
(* argument x.                                                             *)
GradientProjectionMethod_iter_per ==
  /\ UNCHANGED notGp
  /\ gp_pc = "call"
  /\ gp_err' = IF ~(GpKeys \subseteq DOMAIN gp_params) THEN "KeyError"
               ELSE "TypeError"
  /\ gp_pc' = "raised"
  /\ UNCHANGED <<gp_f, gp_con, gp_params, gp_xk, gp_lk, gp_finish>>

(***************************************************************************)
(* PrimalDualInteriorPointMethod.  The model carries 1/t, which is         *)
(* eta/(mu*m) for t = mu*m/eta (t is inf and 1/t is 0 when eta is 0).      *)
(***************************************************************************)
get_surrogate_duality_gap(constraints_values, lk) ==
  RNeg(RMul(constraints_values, lk))

InvT(mu, m, eta) == RDiv(eta, RMul(mu, Z(m)))

get_r_dual(l, grad, constraints_grads) == RAdd(grad, RMul(constraints_grads, l))

get_r_cent(l, inv_t, constraints_values) ==
  RSub(RNeg(RMul(l, constraints_values)), inv_t)

(* the squared 2-norm of a two-component vector r, as the pair of naturals *)
(* <<numerator, denominator>>                                              *)
NormSq(r) ==
  <<BigAdd(BigMul(BigSq(r[1][1]), BigSq(r[2][2])),
           BigMul(BigSq(r[2][1]), BigSq(r[1][2]))),
    BigMul(BigSq(r[1][2]), BigSq(r[2][2]))>>

(* torch.linalg.norm(a) <= factor * torch.linalg.norm(b), decided on the   *)
(* squares                                                                 *)
NormLe(a, factor, b) ==
  IF RLt(factor, RZero) THEN FALSE
  ELSE BigLe(BigMul(BigMul(NormSq(a)[1], BigSq(factor[2])), NormSq(b)[2]),
             BigMul(BigMul(NormSq(b)[1], BigSq(factor[1])), NormSq(a)[2]))

(* __direction__: the 2x2 system A delta_y = -r; torch.linalg.solve raises *)
(* for a singular A                                                        *)
PdDirection(lk, inv_t, grad, H, constraints_values, constraints_grads, chl) ==
  LET r_dual == get_r_dual(lk, grad, constraints_grads)
      r_cent == get_r_cent(lk, inv_t, constraints_values)
      A11 == RAdd(H, chl)
      A12 == constraints_grads
      A21 == RNeg(RMul(lk, constraints_grads))
      A22 == RNeg(constraints_values)
      det == RSub(RMul(A11, A22), RMul(A12, A21))
  IN  IF det = RZero
      THEN [err |-> "LinAlgError"]
      ELSE [err |-> "none",
            delta_x |-> RDiv(RSub(RMul(A12, r_cent), RMul(A22, r_dual)), det),
            delta_l |-> RDiv(RSub(RMul(A21, r_dual), RMul(A11, r_cent)), det),
            r_t |-> <<r_dual, r_cent>>,
            r_dual |-> r_dual]

MaxStepShrinks == 2

(* the while loop of __step_size__ from the scale s; n counts the passes   *)
(* that shrank s for an infeasible trial point                             *)
RECURSIVE PdStepLoop(_, _, _, _, _, _, _, _, _, _)
PdStepLoop(obj, con, x0_, l0, delta_x, delta_l, r_t, inv_t, p, sn) ==
  LET s == sn[1]
      n == sn[2]
      x == RAdd(x0_, RMul(s, delta_x))
      l == RAdd(l0, RMul(s, delta_l))
      constraints_values == evaluate_constraints_values(con, x)
      constraints_grads == evaluate_constraints_grads(con, x)
      grad == FirstOrderOracle(obj, TRUE, x, FALSE)
      r_t_z == <<get_r_dual(l, grad, constraints_grads),
                 get_r_cent(l, inv_t, constraints_values)>>
  IN  IF ~RLe(constraints_values, RZero)
      THEN IF n = MaxStepShrinks THEN [err |-> "NoReturn"]
           ELSE PdStepLoop(obj, con, x0_, l0, delta_x, delta_l, r_t, inv_t, p,
                           <<RMul(s, p["beta"]), n + 1>>)
      ELSE IF ~NormLe(r_t_z, RSub(ROne, RMul(p["alpha"], s)), r_t)
           THEN [err |-> "AttributeError"]
           ELSE [err |-> "none", s |-> s]

(* __step_size__: beta and alpha are read from params; s_max is 1 when     *)
(* delta_l >= 0, torch.min of a Python list otherwise; line 261 reads      *)
(* self.beta, which no code sets                                           *)
PdStepSize(obj, con, x0_, l0, delta_x, delta_l, r_t, inv_t, p) ==
  IF ~({"beta", "alpha"} \subseteq DOMAIN p) THEN [err |-> "KeyError"]
  ELSE IF RLt(delta_l, RZero) THEN [err |-> "TypeError"]
  ELSE PdStepLoop(obj, con, x0_, l0, delta_x, delta_l, r_t, inv_t, p,
                  <<RMul(Q(99, 100), ROne), 0>>)

PdKeys == {"mu", "eps", "eps_feas"}

(* __iter_per__ from the fields (xk, lk): how it ends and the fields after *)
PdIterPer(obj, con, x, lk_, p) ==
  LET same == [xk |-> x, lk |-> lk_, finish |-> FALSE, s |-> None]
  IN
  IF ~(PdKeys \subseteq DOMAIN p) THEN [err |-> "KeyError"] @@ same
  ELSE IF lk_ = None THEN [err |-> "TypeError"] @@ same
  ELSE
    LET m == get_number_of_constraints(con)
        constraints_values == evaluate_constraints_values(con, x)
        constraints_grads == evaluate_constraints_grads(con, x)
        H == Hess(obj, x)
        grad == FirstOrderOracle(obj, TRUE, x, FALSE)
        chl == evaluate_constraints_hessian_linear_sum(con, x, lk_)
        eta == get_surrogate_duality_gap(constraints_values, lk_)
        inv_t == InvT(p["mu"], m, eta)
        dir == PdDirection(lk_, inv_t, grad, H, constraints_values,
                           constraints_grads, chl)
    IN  IF dir.err # "none" THEN [err |-> dir.err] @@ same
        ELSE IF check_norm(dir.r_dual, p["eps_feas"]) /\ RLe(eta, p["eps"])
        THEN [err |-> "none", xk |-> x, lk |-> lk_, finish |-> TRUE,
              s |-> None]
        ELSE LET st == PdStepSize(obj, con, x, lk_, dir.delta_x, dir.delta_l,
                                  dir.r_t, inv_t, p)
             IN  IF st.err # "none" THEN [err |-> st.err] @@ same
                 ELSE [err |-> "none", finish |-> FALSE, s |-> st.s,
                       xk |-> RAdd(x, RMul(st.s, dir.delta_x)),
                       lk |-> RAdd(lk_, RMul(st.s, dir.delta_l))]

PdInit ==
  /\ pd_f \in {"quad", "lin", "kink"}
  /\ pd_con \in Constraints
  /\ pd_params \in {[key \in keys |-> ConValue(key, e, d)] :
                      keys \in {PdKeys, PdKeys \cup {"alpha", "beta"},
                                PdKeys \ {"eps_feas"}},
                      e \in {RZero, Z(4)}, d \in {RZero, ROne}}
  /\ pd_xk \in {Q(n, 2) : n \in -2 * MaxPoint..2 * MaxPoint}
  /\ pd_lk \in {None, RZero, RHalf, ROne, Z(2)}
  /\ pd_finish = FALSE /\ pd_err = "none" /\ pd_pc = "call" /\ pd_s = None

(* the call of __iter_per__ in a pass of the loop of run *)
PrimalDualInteriorPointMethod_iter_per ==
  /\ UNCHANGED notPd
  /\ pd_pc = "call" /\ ~pd_finish
  /\ LET r == PdIterPer(pd_f, pd_con, pd_xk, pd_lk, pd_params)
     IN  /\ pd_err' = r.err
         /\ pd_pc' = IF r.err = "none" THEN "returned" ELSE "raised"
         /\ pd_finish' = r.finish
         /\ pd_xk' = r.xk
         /\ pd_lk' = r.lk
         /\ pd_s' = r.s
  /\ UNCHANGED pdArgs

GpIdle ==
  /\ gp_f = "none" /\ gp_con = None /\ gp_params = None /\ gp_xk = None
  /\ gp_lk = None /\ gp_finish = FALSE /\ gp_err = "none" /\ gp_pc = "off"

PdIdle ==
  /\ pd_f = "none" /\ pd_con = None /\ pd_params = None /\ pd_xk = None
  /\ pd_lk = None /\ pd_finish = FALSE /\ pd_err = "none" /\ pd_pc = "off"
  /\ pd_s = None

(***************************************************************************)
(* SpecDirection: one call of GradientProjectionMethod.__direction__ with  *)
(* the gradient and the rows of active constraint gradients; lk is None    *)
(* after construction or holds what an earlier call left.                  *)
(***************************************************************************)
DrInit ==
  /\ dr_grad \in {Q(n, 2) : n \in -2 * MaxPoint..2 * MaxPoint}
  /\ dr_Gk \in {<< >>, <<ROne>>, <<Z(-1)>>, <<Z(2)>>}
  /\ dr_lk \in {None, <<ROne>>}
  /\ dr_d = None /\ dr_pc = "call"

GradientProjectionMethod_direction ==
  /\ UNCHANGED notDr
  /\ dr_pc = "call"
  /\ LET r == GpDirection(dr_grad, dr_Gk, dr_lk)
     IN  dr_lk' = r.lk /\ dr_d' = r.d
  /\ dr_pc' = "returned"
  /\ UNCHANGED <<dr_grad, dr_Gk>>

(***************************************************************************)
(* SpecLMN: calls of LimitedMemoryNewton.generate_matrix on one solver     *)
(* with a fixed matrix_size.  Each call stacks the current point xk and    *)
(* the gradient gk it is given; Pk is None after construction.             *)
(***************************************************************************)
MaxMatrixSize == 4
MaxCalls == 3

generate_matrix(Pk, matrix_size, x, gk) ==
  IF Pk = None THEN <<x, gk>>
  ELSE IF Len(Pk) < matrix_size THEN Pk \o <<x, gk>>
  ELSE SubSeq(Pk, 3, Len(Pk)) \o <<x, gk>>

LmInit ==
  /\ lm_matrix_size \in 0..MaxMatrixSize
  /\ lm_Pk = None
  /\ lm_pairs = << >>

LimitedMemoryNewton_generate_matrix ==
  /\ UNCHANGED notLm
  /\ Len(lm_pairs) < MaxCalls
  /\ \E x \in {RZero, ROne}, gk \in {Z(2), Z(3)} :
       /\ lm_Pk' = generate_matrix(lm_Pk, lm_matrix_size, x, gk)
       /\ lm_pairs' = Append(lm_pairs, <<x, gk>>)
  /\ UNCHANGED lm_matrix_size

DrIdle ==
  /\ dr_grad = None /\ dr_Gk = << >> /\ dr_lk = None /\ dr_d = None
  /\ dr_pc = "off"

LmIdle == lm_matrix_size = 0 /\ lm_Pk = None /\ lm_pairs = << >>

OthersIdle == DrIdle /\ LmIdle

InitRun == RunInit /\ CpIdle /\ BtIdle /\ AgIdle /\ GpIdle /\ PdIdle /\ OthersIdle
InitParams == CpInit /\ RunIdle /\ BtIdle /\ AgIdle /\ GpIdle /\ PdIdle /\ OthersIdle
InitProx == BtInit /\ RunIdle /\ CpIdle /\ AgIdle /\ GpIdle /\ PdIdle /\ OthersIdle
InitAGD == AgInit /\ RunIdle /\ CpIdle /\ BtIdle /\ GpIdle /\ PdIdle /\ OthersIdle
InitPDIP == PdInit /\ RunIdle /\ CpIdle /\ BtIdle /\ AgIdle /\ GpIdle /\ OthersIdle
InitDirection ==
  DrInit /\ RunIdle /\ CpIdle /\ BtIdle /\ AgIdle /\ GpIdle /\ PdIdle /\ LmIdle
InitLMN ==
  LmInit /\ RunIdle /\ CpIdle /\ BtIdle /\ AgIdle /\ GpIdle /\ PdIdle /\ DrIdle
InitGPM == GpInit /\ RunIdle /\ CpIdle /\ BtIdle /\ AgIdle /\ PdIdle /\ OthersIdle

Spec == InitRun /\ [][RunNext]_vars
SpecParams == InitParams /\ [][CheckParamsCall]_vars
SpecProx == InitProx /\ [][BtNext]_vars
SpecAGD == InitAGD /\ [][AgStep]_vars
SpecPDIP == InitPDIP /\ [][PrimalDualInteriorPointMethod_iter_per]_vars
SpecDirection == InitDirection /\ [][GradientProjectionMethod_direction]_vars
SpecLMN == InitLMN /\ [][LimitedMemoryNewton_generate_matrix]_vars
SpecGPM == InitGPM /\ [][GradientProjectionMethod_iter_per]_vars

(***************************************************************************)
(* C1: __check_params__ accepts a mapping exactly when its key set is the  *)
(* class's declared key list; a mapping with an extra key, with a key      *)
(* missing, or with a declared key replaced by an undeclared one is        *)
(* rejected.                                                               *)
(***************************************************************************)
C1_AcceptsExactlyDeclaredKeys ==
  cp_result \notin {"off", "pending"} =>
    (cp_result = "accepted" <=> DOMAIN cp_params = Declared(cp_cls))

C1_ReplacedKeyRejected ==
  /\ cp_result = "AssertionError"
  /\ Cardinality(DOMAIN cp_params) = Len(params_key(cp_cls))
  /\ DOMAIN cp_params # Declared(cp_cls)

(***************************************************************************)
(* C2: at every run entry point, a parameter mapping that does not match   *)
(* the declared keys ends the run with the validation failure, before any  *)
(* __iter_per__ and before any parameter value is consumed (backward_mode  *)
(* is still the constructor's).                                            *)
(***************************************************************************)
C2_MismatchEndsInValidationFailure ==
  (pc # "start" /\ ~CheckParams(cls, params)) =>
    /\ pc = "raised" /\ err = "AssertionError"
    /\ iter_calls = 0
    /\ backward_mode = TRUE

(***************************************************************************)
(* C3, as the claim states it: finish is false when the run starts and,    *)
(* once finish is true, xk is never assigned again, not even by the step   *)
(* that set the flag.                                                      *)
(***************************************************************************)
C3_NoUpdateOnceFinishIsSet ==
  [][finish => xk' = xk]_vars

(***************************************************************************)
(* C3, amended: finish is false when the loop starts and, once the step    *)
(* that set finish has returned, xk is not assigned again and no further   *)
(* __iter_per__ is called in that run.  (Between the test and the return   *)
(* the proximal step still assigns its candidate.)                         *)
(***************************************************************************)
C3_NoUpdateAfterFinishingStep ==
  /\ [](pc = "loop" /\ i = 0 => ~finish)
  /\ [][(finish /\ pc # "assign") =>
          (xk' = xk /\ iter_calls' = iter_calls)]_vars

C3_StoppedEarly ==
  /\ pc = "done" /\ finish /\ i < iteration
  /\ xk # x0

(***************************************************************************)
(* C4: in a run of an unconstrained solver with budget N both series have  *)
(* length N+1, entry 0 of func_values is the objective at x0, the entries  *)
(* are written at indices 1, 2, ... in that order, once each, one per      *)
(* executed iteration, with the elapsed time and the objective at the      *)
(* current iterate, a written entry is not changed later, and the entries  *)
(* beyond the last executed iteration are still zero.                      *)
(***************************************************************************)
C4_SeriesShape ==
  (cls \in UnconstrainedClasses /\ pc \notin {"off", "start"}) =>
    /\ Len(func_values) = iteration + 1
    /\ Len(time) = iteration + 1
    /\ func_values[1] = F(f, x0)
    /\ Len(written) <= iteration
    /\ \A j \in 1..Len(written) : written[j] = j
    /\ Len(written) > 0 =>
         /\ func_values[Len(written) + 1] = F(f, xk)
         /\ time[Len(written) + 1] = Z(T)
    /\ (pc \in {"loop", "done"}) => Len(written) = i
    /\ \A j \in (Len(written) + 2)..(iteration + 1) :
         func_values[j] = RZero /\ time[j] = RZero

C4_WrittenEntriesKept ==
  \A j \in 1..Len(written) :
    func_values'[j + 1] = func_values[j + 1] /\ time'[j + 1] = time[j + 1]

C5_FlushOnlyOnConfiguredInterval ==
  \A j \in 1..Len(written) :
    (j \in Range(flushed)) <=>
      (log_interval \notin {-1, 0} /\ PyMod(j, log_interval) = 0)

(***************************************************************************)
(* C6: the backtracking search of either proximal class runs its loop body *)
(* at most (retry budget + 1) times; when the inequality never holds it    *)
(* stops then and returns the last candidate.                              *)
(***************************************************************************)
C6_ShrinksWithinRetryBudget == bt_shrinks <= bt_budget + 1

(***************************************************************************)
(* C7.  The inequality of the claim, for the pair the search holds:        *)
(* f(prox_x) <= f(x) - grad.(x - prox_x) + |x - prox_x|^2 / (2t).          *)
(***************************************************************************)
SufficientDecrease ==
  LET diff == RSub(bt_x, bt_prox_x)
  IN  RLe(F(bt_f, bt_prox_x),
          RAdd(RSub(F(bt_f, bt_x), RMul(bt_grad, diff)),
               RDiv(RMul(diff, diff), RMul(Z(2), bt_t))))

CandidateOfScale ==
  bt_prox_x = Prox(bt_prox, RSub(bt_x, RMul(bt_t, bt_grad)), bt_t)

PlainReturned == bt_pc = "returned" /\ bt_cls = "BacktrackingProximalGD"

(* C7, as the claim states it: every returned pair (with t # 0, where the  *)
(* inequality is defined) satisfies the inequality and prox_x is the       *)
(* candidate of the returned t.                                            *)
C7_ReturnedPairSatisfiesInequality ==
  (PlainReturned /\ bt_t # RZero) => (SufficientDecrease /\ CandidateOfScale)

(* C7, amended: a pair returned with t > 0 because the loop condition      *)
(* failed, not because the retry budget ran out, satisfies the inequality, *)
(* and prox_x is the candidate of the returned t.                          *)
C7_AcceptedPairSatisfiesInequality ==
  (PlainReturned /\ ~BtBudgetSpent(BtState) /\ RLt(RZero, bt_t)) =>
    (SufficientDecrease /\ CandidateOfScale)

C7_AcceptedAfterShrinking ==
  /\ PlainReturned /\ ~BtBudgetSpent(BtState) /\ RLt(RZero, bt_t)
  /\ bt_shrinks >= 1 /\ bt_prox_x # bt_x

(***************************************************************************)
(* C8, as the claim states it: with lambda_k = 0 the new iterate of an     *)
(* AcceleratedGD step is the GradientDescent step xk - lr*grad(xk).        *)
(***************************************************************************)
C8_ZeroLambdaStepIsGradientStep ==
  (ag_pc = "returned" /\ ag_lambda_k = RZero) => ag_new.xk = ag_gd

(***************************************************************************)
(* C8, amended: with lambda_k = 0 (so gamma_k = 1) the AcceleratedGD step  *)
(* makes yk its new iterate and stores the GradientDescent step            *)
(* xk - lr*grad(xk) in yk; the first step of a fresh solver (yk = x0)      *)
(* leaves the iterate at x0.                                               *)
(***************************************************************************)
C8_ZeroLambdaStepReturnsYk ==
  (ag_pc = "returned" /\ ag_lambda_k = RZero) =>
    /\ ag_new.xk = ag_yk
    /\ ag_new.yk = ag_gd
    /\ ag_new.lambda_k = ROne

C8_FreshSolverStaysAtX0 ==
  /\ ag_pc = "returned" /\ ag_lambda_k = RZero /\ ag_yk = ag_xk
  /\ ag_gd # ag_xk /\ ag_new.xk = ag_xk

(***************************************************************************)
(* C9: in an iteration of the Gradient Projection Method where the         *)
(* direction projected on the active constraints of the current iterate    *)
(* has norm below delta and a multiplier of an active constraint is        *)
(* negative, the method does not raise and does not set finish; finish is  *)
(* set only when that norm is below delta and no multiplier is negative.   *)
(***************************************************************************)
GpActive == get_activate_grads(gp_con, gp_xk, gp_params["eps"])
GpGrad == Grad(gp_f, gp_xk)
GpNormBelowDelta ==
  RLt(RAbs(GpProjected(GpGrad, GpActive, GpMultiplier(GpGrad, GpActive))),
      gp_params["delta"])
GpNegativeMultiplier ==
  \E j \in DOMAIN GpMultiplier(GpGrad, GpActive) :
    RLt(GpMultiplier(GpGrad, GpActive)[j], RZero)

(* C9: finish only with norm below delta and no negative multiplier; with *)
(* norm below delta and a negative multiplier, no error and no finish.     *)
C9_FinishOnlyAtProjectedStationaryPoint ==
  [][(gp_pc = "call" /\ GpKeys \subseteq DOMAIN gp_params) =>
       /\ gp_finish' => (GpNormBelowDelta /\ ~GpNegativeMultiplier)
       /\ (GpNormBelowDelta /\ GpNegativeMultiplier) =>
            (gp_err' = "none" /\ ~gp_finish')]_vars

(***************************************************************************)
(* C10: an iteration of the Primal-Dual Interior-Point method that starts  *)
(* with the dual-residual norm at most eps_feas and the surrogate duality  *)
(* gap at most eps sets finish and changes neither xk nor lk, and no       *)
(* iteration that starts otherwise sets finish.                            *)
(***************************************************************************)
PdGap == get_surrogate_duality_gap(
           evaluate_constraints_values(pd_con, pd_xk), pd_lk)
PdDualResidual ==
  get_r_dual(pd_lk, Grad(pd_f, pd_xk), evaluate_constraints_grads(pd_con, pd_xk))
PdThresholdsMet ==
  /\ check_norm(PdDualResidual, pd_params["eps_feas"])
  /\ RLe(PdGap, pd_params["eps"])

(* C10: finish is set by exactly the iterations that start within both    *)
(* thresholds, and those leave xk and lk as they were.                     *)
C10_FinishAtFirstIterationWithinThresholds ==
  [][(pd_pc = "call" /\ PdKeys \subseteq DOMAIN pd_params /\ pd_lk # None) =>
       /\ pd_finish' <=> PdThresholdsMet
       /\ pd_finish' => (pd_xk' = pd_xk /\ pd_lk' = pd_lk)]_vars

(***************************************************************************)
(* C11: __direction__ called with at least one active constraint gradient  *)
(* stores the solution of (G G^T) lk = -G grad in lk and returns           *)
(* -grad - G^T lk; called with no active constraint it returns -grad.      *)
(***************************************************************************)
C11_BranchByActiveSet ==
  dr_pc = "returned" =>
    IF Len(dr_Gk) >= 1
    THEN /\ dr_lk = GpMultiplier(dr_grad, dr_Gk)
         /\ dr_d = GpProjected(dr_grad, dr_Gk, GpMultiplier(dr_grad, dr_Gk))
    ELSE dr_d = RNeg(dr_grad)

(***************************************************************************)
(* The iteration of SpecPDIP as the claims about its step size see it: the *)
(* residuals of a point for the iteration's t, and the iterations that     *)
(* get as far as __step_size__ with beta and alpha in params.              *)
(***************************************************************************)
PdInvT ==
  InvT(pd_params["mu"], get_number_of_constraints(pd_con), PdGap)

PdResidual(x, l) ==
  <<get_r_dual(l, Grad(pd_f, x), evaluate_constraints_grads(pd_con, x)),
    get_r_cent(l, PdInvT, evaluate_constraints_values(pd_con, x))>>

PdDir ==
  PdDirection(pd_lk, PdInvT, Grad(pd_f, pd_xk), Hess(pd_f, pd_xk),
              evaluate_constraints_values(pd_con, pd_xk),
              evaluate_constraints_grads(pd_con, pd_xk), RZero)

PdCallsStepSize ==
  /\ pd_pc = "call"
  /\ (PdKeys \cup {"alpha", "beta"}) \subseteq DOMAIN pd_params
  /\ pd_lk # None
  /\ PdDir.err = "none"
  /\ ~PdThresholdsMet

(***************************************************************************)
(* C12: an iteration that calls __step_size__ shrinks s by beta until the  *)
(* candidate (xk + s*delta_x, lk + s*delta_l) satisfies the constraint and *)
(* has residual norm at most (1 - alpha*s) times the norm at (xk, lk),     *)
(* and then returns that s: the search does not fail when the residual     *)
(* test fails, and the point it moves to satisfies both conditions.        *)
(***************************************************************************)
C12_StepSizeShrinksUntilBothHold ==
  [][PdCallsStepSize =>
       /\ pd_err' # "AttributeError"
       /\ pd_err' = "none" =>
            /\ RLe(evaluate_constraints_values(pd_con, pd_xk'), RZero)
            /\ NormLe(PdResidual(pd_xk', pd_lk'),
                      RSub(ROne, RMul(pd_params["alpha"], pd_s')),
                      PdResidual(pd_xk, pd_lk))]_vars

(***************************************************************************)
(* C14: an iteration that calls __step_size__ with lk >= 0 and             *)
(* 0 < beta < 1 obtains its initial scale, 0.99 times the largest scale in *)
(* (0,1] keeping lk + s*delta_l >= 0, also when delta_l is negative, and   *)
(* leaves lk >= 0.                                                         *)
(***************************************************************************)
C14_DualStaysNonNegative ==
  [][(PdCallsStepSize /\ RLe(RZero, pd_lk)
        /\ RLt(RZero, pd_params["beta"]) /\ RLt(pd_params["beta"], ROne)) =>
       /\ pd_err' # "TypeError"
       /\ RLe(RZero, pd_lk')]_vars

(***************************************************************************)
(* C13: after any sequence of generate_matrix calls with a fixed           *)
(* matrix_size, Pk has at most matrix_size rows and its rows are the most  *)
(* recent (point, gradient) pairs in insertion order (so a call on a full  *)
(* window drops exactly the oldest pair).                                  *)
(***************************************************************************)
RECURSIVE StackPairs(_)
StackPairs(pairs) ==
  IF pairs = << >> THEN << >>
  ELSE <<Head(pairs)[1], Head(pairs)[2]>> \o StackPairs(Tail(pairs))

C13_WindowHoldsMostRecentPairs ==
  Len(lm_pairs) > 0 =>
    /\ Len(lm_Pk) <= lm_matrix_size
    /\ Len(lm_Pk) % 2 = 0
    /\ lm_Pk = StackPairs(SubSeq(lm_pairs,
                                 Len(lm_pairs) - (Len(lm_Pk) \div 2) + 1,
                                 Len(lm_pairs)))

(***************************************************************************)
(* C15: for every class, a mapping that __check_params__ accepts holds     *)
(* every key the class reads from params, and the mapping the class builds *)
(* for a nested solver holds every key that solver reads.                  *)
(***************************************************************************)
C15_AcceptedMappingHoldsEveryKeyRead ==
  cp_result = "accepted" =>
    /\ KeysRead(cp_cls) \subseteq DOMAIN cp_params
    /\ NestedSolver(cp_cls) # "none" =>
         KeysRead(NestedSolver(cp_cls)) \subseteq NestedParamsKeys(cp_cls)

====
